---- MODULE Spec2Model ----
(***************************************************************************)
(* A model of env.rs: the platform-neutral entry points of the process     *)
(* environment (var, var_os, set_var, remove_var, split_paths, join_paths) *)
(* over a PlatformBackend (the trait parameter STD).  The entry points are *)
(* translated from env.rs; the backend primitives they delegate to are not *)
(* part of env.rs and are modelled from the written specification.         *)
(*                                                                         *)
(* A native string (OsString) is a sequence of units; a unit is written as *)
(* a one-token string.  A path is a native string, a path list a sequence  *)
(* of paths.                                                               *)
(***************************************************************************)
EXTENDS Integers, Sequences, FiniteSets, TLC

VARIABLES
    conv,       \* the platform convention the build selected (the STD parameter)
    client,     \* the path-list values the calling code holds
    environ,    \* the live process environment: key -> Option<value>
    lastMut,    \* history: the most recent completed mutation of each key
    ret,        \* the last environment call and what it returned
    argv,       \* the arguments the process was started with
    iter        \* the snapshot iterator the calling code holds

vars == <<conv, client, environ, lastMut, ret, argv, iter>>

----------------------------------------------------------------------------
(* Bounds *)

\* The longest unparsed string given to split_paths, and the longest raw
\* (unquoted) joined length of a path sequence given to join_paths.
MaxLen == 3

\* The longest environment variable value.
MaxValLen == 1

\* The most arguments a process is started with, and the longest argument.
MaxArgs == 3
MaxArgLen == 1

----------------------------------------------------------------------------
(* Values *)

None == [some |-> FALSE]
Some(x) == [some |-> TRUE, val |-> x]

Ok(x) == [ok |-> TRUE, val |-> x]
Err(e) == [ok |-> FALSE, err |-> e]

Quote == "\""
Nul == "NUL"
\* A unit that is not valid Unicode (a lone 0xFF byte, an unpaired surrogate).
BadUnit == "xFF"

Conventions == {"posix", "windows"}

\* PlatformConvention.separator
PATH_SEPARATOR(c) == IF c = "windows" THEN ";" ELSE ":"

\* The units the path strings of the model are made of: an ordinary
\* character, the convention's separator and the quote character.
PathUnits(c) == {"a", PATH_SEPARATOR(c), Quote}

Contains(s, u) == \E i \in 1..Len(s) : s[i] = u

RECURSIVE StringsUpTo(_, _)
StringsUpTo(U, n) ==
    IF n = 0 THEN {<<>>}
    ELSE LET shorter == StringsUpTo(U, n - 1)
         IN  shorter \cup {Append(s, u) : s \in {t \in shorter : Len(t) = n - 1}, u \in U}

\* The inputs of split_paths.
UnparsedStrings(c) == StringsUpTo(PathUnits(c), MaxLen)

\* The length of the list written with one separator between entries and
\* no quoting.
RECURSIVE RawLen(_)
RawLen(v) ==
    IF v = <<>> THEN 0
    ELSE Len(Head(v)) + (IF Len(v) > 1 THEN 1 ELSE 0) + RawLen(Tail(v))

RECURSIVE PathSeqsOfLen(_, _)
PathSeqsOfLen(c, n) ==
    IF n = 0 THEN {<<>>}
    ELSE {w \in {Append(v, p) : v \in PathSeqsOfLen(c, n - 1),
                                p \in StringsUpTo(PathUnits(c), MaxLen)} :
            RawLen(w) <= MaxLen}

\* The inputs of join_paths: every sequence of paths whose raw length is at
\* most MaxLen (the empty sequence, sequences of empty paths and paths that
\* hold separators and quotes included).
PathSeqs(c) == UNION {PathSeqsOfLen(c, n) : n \in 0..(MaxLen + 1)}

\* The two input sets, per convention.
UnparsedInputs == [c \in Conventions |-> UnparsedStrings(c)]
PathSeqInputs == [c \in Conventions |-> PathSeqs(c)]

----------------------------------------------------------------------------
(* PlatformBackend: the path-list codec (STD::split_paths, STD::join_paths) *)

\* POSIX split: a direct split on the separator, no quoting.  `cur` is the
\* segment being accumulated, `out` the paths emitted so far.
RECURSIVE posix_scan(_, _, _, _)
posix_scan(s, i, cur, out) ==
    IF i > Len(s) THEN Append(out, cur)
    ELSE IF s[i] = PATH_SEPARATOR("posix")
         THEN posix_scan(s, i + 1, <<>>, Append(out, cur))
         ELSE posix_scan(s, i + 1, Append(cur, s[i]), out)

posix_split_paths(unparsed) == posix_scan(unparsed, 1, <<>>, <<>>)

\* Windows split: one left-to-right pass with the states outside-quotes /
\* inside-quotes.  A quote toggles the state and is not emitted; a separator
\* outside quotes ends the segment; everything else is copied.  At the end
\* of the input the accumulated segment is emitted, even when empty.
RECURSIVE windows_scan(_, _, _, _, _)
windows_scan(s, i, in_quote, cur, out) ==
    IF i > Len(s) THEN Append(out, cur)
    ELSE IF s[i] = Quote
         THEN windows_scan(s, i + 1, ~in_quote, cur, out)
    ELSE IF s[i] = PATH_SEPARATOR("windows") /\ ~in_quote
         THEN windows_scan(s, i + 1, FALSE, <<>>, Append(out, cur))
    ELSE windows_scan(s, i + 1, in_quote, Append(cur, s[i]), out)

windows_split_paths(unparsed) == windows_scan(unparsed, 1, FALSE, <<>>, <<>>)

STD_split_paths(c, unparsed) ==
    IF c = "windows" THEN windows_split_paths(unparsed)
    ELSE posix_split_paths(unparsed)

RECURSIVE Reverse(_)
Reverse(s) == IF s = <<>> THEN <<>> ELSE Append(Reverse(Tail(s)), Head(s))

\* What a join did with the iterator it was handed: the result it returned
\* and the paths it left in the iterator, never having taken them.
Joined(out, rest) == [out |-> out, rest |-> rest]

\* POSIX join: paths are taken from the iterator in order; the separator is
\* pushed before every path but the first; a path holding the separator
\* fails the call there and then, the paths after it are not taken.
RECURSIVE posix_join(_, _, _)
posix_join(paths, i, joined) ==
    IF i > Len(paths) THEN Joined(Ok(joined), <<>>)
    ELSE IF Contains(paths[i], PATH_SEPARATOR("posix"))
         THEN Joined(Err("path segment contains separator"),
                     SubSeq(paths, i + 1, Len(paths)))
         ELSE posix_join(paths, i + 1,
                         (IF i > 1 THEN Append(joined, PATH_SEPARATOR("posix"))
                          ELSE joined) \o paths[i])

\* Windows join: a path holding the quote character fails the call there
\* and then; a path holding the separator is wrapped in one pair of quotes.
RECURSIVE windows_join(_, _, _)
windows_join(paths, i, joined) ==
    IF i > Len(paths) THEN Joined(Ok(joined), <<>>)
    ELSE IF Contains(paths[i], Quote)
         THEN Joined(Err("path segment contains quote"),
                     SubSeq(paths, i + 1, Len(paths)))
         ELSE LET sep == IF i > 1 THEN Append(joined, PATH_SEPARATOR("windows"))
                         ELSE joined
                  seg == IF Contains(paths[i], PATH_SEPARATOR("windows"))
                         THEN <<Quote>> \o paths[i] \o <<Quote>>
                         ELSE paths[i]
              IN  windows_join(paths, i + 1, sep \o seg)

\* STD::join_paths on an iterator over `paths`: its result and what it left
\* in the iterator.
STD_join_paths_from(c, paths) ==
    IF c = "windows" THEN windows_join(paths, 1, <<>>)
    ELSE posix_join(paths, 1, <<>>)

\* The result of STD::join_paths alone.
STD_join_paths(c, paths) == STD_join_paths_from(c, paths).out

----------------------------------------------------------------------------
(* env.rs: the path-list entry points *)

\* SplitPaths::next: hands on the backend iterator's next item; None once
\* the backend iterator is exhausted.
SplitPaths_next(inner) ==
    IF inner = <<>> THEN [item |-> None, inner |-> <<>>]
    ELSE [item |-> Some(Head(inner)), inner |-> Tail(inner)]

\* Iterator::collect over SplitPaths: call next until it returns None.
RECURSIVE collect(_, _)
collect(inner, out) ==
    LET n == SplitPaths_next(inner)
    IN  IF n.item.some THEN collect(n.inner, Append(out, n.item.val)) ELSE out

\* split_paths with empty entries left out, as a shell-style word split
\* would do.
split_paths_skip_empty(c, unparsed) ==
    SelectSeq(collect(STD_split_paths(c, unparsed), <<>>), LAMBDA p : p # <<>>)

\* split_paths that gives up the segment still open when the input ends
\* inside a quoted region.
split_paths_drop_unterminated(c, unparsed) ==
    LET all == collect(STD_split_paths(c, unparsed), <<>>)
        quotes == Cardinality({i \in 1..Len(unparsed) : unparsed[i] = Quote})
    IN  IF quotes % 2 = 1 THEN SubSeq(all, 1, Len(all) - 1) ELSE all

\* split_paths: SplitPaths { inner: STD::split_paths(unparsed) }, read to
\* its end.
split_paths(c, unparsed) == collect(STD_split_paths(c, unparsed), <<>>)

\* join_paths that hands the backend the paths from the back
\* (paths.into_iter().rev()).
join_paths_from_back(c, paths) ==
    LET r == STD_join_paths_from(c, Reverse(paths))
    IN  Joined(IF r.out.ok THEN Ok(r.out.val) ELSE Err([inner |-> r.out.err]),
               Reverse(r.rest))

\* join_paths on an iterator over `paths`:
\* STD::join_paths(paths.into_iter()).map_err(|e| JoinPathsError { inner: e }).
\* The iterator goes to the backend as it is; the backend's result comes
\* back with its error wrapped in JoinPathsError, and the iterator holds
\* what the backend left in it.
join_paths_from(c, paths) ==
    LET r == STD_join_paths_from(c, paths)
    IN  Joined(IF r.out.ok THEN Ok(r.out.val) ELSE Err([inner |-> r.out.err]),
               r.rest)

\* join_paths with the backend's error swallowed (unwrap_or_default).
join_paths_lossy(c, paths) ==
    LET r == STD_join_paths(c, paths)
    IN  IF r.ok THEN Ok(r.val) ELSE Ok(<<>>)

\* join_paths that treats an empty input sequence as an error.
join_paths_nonempty(c, paths) ==
    LET r == STD_join_paths(c, paths)
    IN  IF paths = <<>> THEN Err([inner |-> "no paths"])
        ELSE IF r.ok THEN Ok(r.val) ELSE Err([inner |-> r.err])

\* join_paths that writes the separator after every path instead of
\* between neighbours.
join_paths_terminated(c, paths) ==
    LET r == STD_join_paths(c, paths)
    IN  IF r.ok THEN Ok(IF paths = <<>> THEN r.val
                        ELSE Append(r.val, PATH_SEPARATOR(c)))
        ELSE Err([inner |-> r.err])

\* join_paths: what the call returns.
join_paths(c, paths) == join_paths_from(c, paths).out

----------------------------------------------------------------------------
(* PlatformBackend: the process environment (STD::getenv, setenv, unsetenv) *)

\* The keys of the model: two well-formed keys (one of them not valid
\* Unicode), and one malformed key of each kind (empty, holding '=',
\* holding NUL).
Keys == {<<"k">>, <<BadUnit>>, <<>>, <<"k", "=">>, <<"k", Nul>>}

\* The units values are made of: a Unicode character, a unit that is not
\* valid Unicode, and NUL.
ValUnits == {"v", BadUnit, Nul}
Values == StringsUpTo(ValUnits, MaxValLen)

\* The key-malformation contract of setenv / unsetenv.
MalformedKey(k) == k = <<>> \/ Contains(k, "=") \/ Contains(k, Nul)
MalformedValue(v) == Contains(v, Nul)

ValidKeys == {k \in Keys : ~MalformedKey(k)}
ValidValues == {v \in Values : ~MalformedValue(v)}

\* The environments a process can be started with.
Environments == [ValidKeys -> {None} \cup {Some(v) : v \in ValidValues}]

\* The history of a key no call has mutated: what the process was started with.
NeverMutated(env) == [k \in ValidKeys |-> [kind |-> "never", initial |-> env[k]]]

\* OsString::into_string: the string itself when every unit is valid
\* Unicode, otherwise the error carrying the original native string.
into_string(s) == IF Contains(s, BadUnit) THEN Err(s) ELSE Ok(s)

\* getenv: the value if present; absence is None, not an error; an
\* underlying OS failure is an error.
STD_getenv(env, key, os_failure) ==
    IF os_failure THEN Err("os error")
    ELSE IF key \in DOMAIN env THEN Ok(env[key]) ELSE Ok(None)

\* setenv: an error for a malformed key or a value holding NUL, otherwise
\* the variable is set.
STD_setenv(env, k, v) ==
    IF MalformedKey(k) \/ MalformedValue(v) THEN [ok |-> FALSE, env |-> env]
    ELSE [ok |-> TRUE, env |-> [env EXCEPT ![k] = Some(v)]]

\* unsetenv: an error for a malformed key, otherwise the variable is gone.
STD_unsetenv(env, k) ==
    IF MalformedKey(k) THEN [ok |-> FALSE, env |-> env]
    ELSE [ok |-> TRUE, env |-> [env EXCEPT ![k] = None]]

----------------------------------------------------------------------------
(* env.rs: the environment entry points *)

Returned(x) == [panic |-> FALSE, val |-> x]
Panicked(m) == [panic |-> TRUE, msg |-> m]

NotPresent == [variant |-> "NotPresent"]
NotUnicode(raw) == [variant |-> "NotUnicode", raw |-> raw]

\* _var_os with the backend error swallowed (unwrap_or(None)).
_var_os_swallow(env, key, os_failure) ==
    LET r == STD_getenv(env, key, os_failure)
    IN  IF r.ok THEN Returned(r.val) ELSE Returned(None)

\* _var_os: STD::getenv(key), a backend error turned into a panic.
_var_os(env, key, os_failure) ==
    LET r == STD_getenv(env, key, os_failure)
    IN  IF r.ok THEN Returned(r.val)
        ELSE Panicked("failed to get environment variable")

var_os(env, key, os_failure) == _var_os(env, key, os_failure)

\* _var that reports a value that is not Unicode as absent.
_var_absent_if_not_unicode(env, key, os_failure) ==
    LET o == var_os(env, key, os_failure)
    IN  IF o.panic THEN o
        ELSE IF o.val.some /\ into_string(o.val.val).ok
             THEN Returned(Ok(o.val.val))
             ELSE Returned(Err(NotPresent))

\* _var: Some(s) => s.into_string().map_err(NotUnicode), None => NotPresent.
_var(env, key, os_failure) ==
    LET o == var_os(env, key, os_failure)
    IN  IF o.panic THEN o
        ELSE IF o.val.some
             THEN LET s == into_string(o.val.val)
                  IN  Returned(IF s.ok THEN Ok(s.val) ELSE Err(NotUnicode(s.err)))
             ELSE Returned(Err(NotPresent))

var(env, key, os_failure) == _var(env, key, os_failure)

\* _set_var that leaves a variable that is already set alone (setenv
\* called without overwrite).
_set_var_no_overwrite(env, k, v) ==
    LET r == STD_setenv(env, k, v)
    IN  IF r.ok /\ env[k].some THEN [panic |-> FALSE, env |-> env]
        ELSE [panic |-> ~r.ok, env |-> r.env]

\* _set_var with the backend error dropped (let _ = STD::setenv(k, v)).
_set_var_ignore_error(env, k, v) ==
    LET r == STD_setenv(env, k, v)
    IN  [panic |-> FALSE, env |-> r.env]

\* _set_var that passes the value as a C string first: a value holding NUL
\* is stored cut at the NUL before the error is reported.
_set_var_truncating(env, k, v) ==
    LET r == STD_setenv(env, k, v)
        cut == SubSeq(v, 1, (CHOOSE i \in 1..Len(v) :
                                v[i] = Nul /\ \A j \in 1..(i - 1) : v[j] # Nul) - 1)
    IN  IF ~r.ok /\ ~MalformedKey(k)
        THEN [panic |-> TRUE, env |-> [env EXCEPT ![k] = Some(cut)]]
        ELSE [panic |-> ~r.ok, env |-> r.env]

\* _set_var: STD::setenv(k, v), a backend error turned into a panic.
_set_var(env, k, v) ==
    LET r == STD_setenv(env, k, v)
    IN  [panic |-> ~r.ok, env |-> r.env]

set_var(env, k, v) == _set_var(env, k, v)

\* _remove_var: STD::unsetenv(k), a backend error turned into a panic.
_remove_var(env, k) ==
    LET r == STD_unsetenv(env, k)
    IN  [panic |-> ~r.ok, env |-> r.env]

remove_var(env, k) == _remove_var(env, k)

NoCall == [op |-> "none"]

NoIter == [kind |-> "none"]

\* A process started without arguments.
NoArgs == <<>>

\* What the calling code holds: `paths` and `joined` are the argument and the
\* result of the last join_paths, `rest` the paths that call left in the
\* iterator it was given; `unparsed` and `parsed` are the argument and the
\* collected result of the last split_paths.
Fresh == [chain |-> "none", paths |-> None, joined |-> None, rest |-> None,
          unparsed |-> None, parsed |-> None]

----------------------------------------------------------------------------
(* The path-list operations as steps of the calling code *)

\* join_paths(v) on a sequence the caller supplies.
JoinPaths ==
    \E v \in PathSeqInputs[conv] :
        client' = [chain |-> "join", paths |-> Some(v),
                   joined |-> Some(join_paths(conv, v)),
                   rest |-> Some(join_paths_from(conv, v).rest),
                   unparsed |-> None, parsed |-> None]

\* split_paths(s) on a string the caller supplies.
SplitPaths ==
    \E s \in UnparsedInputs[conv] :
        client' = [chain |-> "split", paths |-> None, joined |-> None,
                   rest |-> None, unparsed |-> Some(s), parsed |-> Some(split_paths(conv, s))]

\* split_paths(join_paths(v)): the string a successful join returned is
\* split again.
SplitJoined ==
    /\ client.joined.some
    /\ client.joined.val.ok
    /\ client' = [client EXCEPT
                    !.chain = "split_of_join",
                    !.unparsed = Some(client.joined.val.val),
                    !.parsed = Some(split_paths(conv, client.joined.val.val))]

\* join_paths(split_paths(s).collect()): join_paths called on the paths a
\* split produced, as they are.
JoinParsed ==
    /\ client.parsed.some
    /\ client' = [client EXCEPT
                    !.chain = "join_of_split",
                    !.paths = client.parsed,
                    !.joined = Some(join_paths(conv, client.parsed.val)),
                    !.rest = Some(join_paths_from(conv, client.parsed.val).rest)]

Init ==
    /\ conv \in Conventions
    /\ client = Fresh
    /\ environ = [k \in ValidKeys |-> None]
    /\ lastMut = NeverMutated(environ)
    /\ ret = NoCall
    /\ argv = NoArgs
    /\ iter = NoIter

Next ==
    \/ JoinPaths /\ UNCHANGED <<conv, environ, lastMut, ret, argv, iter>>
    \/ SplitPaths /\ UNCHANGED <<conv, environ, lastMut, ret, argv, iter>>
    \/ SplitJoined /\ UNCHANGED <<conv, environ, lastMut, ret, argv, iter>>
    \/ JoinParsed /\ UNCHANGED <<conv, environ, lastMut, ret, argv, iter>>

Spec == Init /\ [][Next]_vars

----------------------------------------------------------------------------
(* The environment operations as steps of the calling code *)

\* var(key): reads the environment, changes nothing.
Var ==
    \E key \in Keys, os_failure \in BOOLEAN :
        /\ ret' = [op |-> "var", key |-> key, os_failure |-> os_failure,
                   out |-> var(environ, key, os_failure)]
        /\ UNCHANGED <<environ, lastMut>>

\* var_os(key)
VarOs ==
    \E key \in Keys, os_failure \in BOOLEAN :
        /\ ret' = [op |-> "var_os", key |-> key, os_failure |-> os_failure,
                   out |-> var_os(environ, key, os_failure)]
        /\ UNCHANGED <<environ, lastMut>>

\* set_var(k, v): the environment after the call is the backend's; a call
\* that panicked is no mutation.
SetVar ==
    \E k \in Keys, v \in Values :
        LET r == set_var(environ, k, v)
        IN  /\ environ' = r.env
            /\ lastMut' = IF r.panic THEN lastMut
                          ELSE [lastMut EXCEPT ![k] = [kind |-> "set", val |-> v]]
            /\ ret' = [op |-> "set_var", key |-> k, value |-> v,
                       out |-> [panic |-> r.panic]]

\* remove_var(k)
RemoveVar ==
    \E k \in Keys :
        LET r == remove_var(environ, k)
        IN  /\ environ' = r.env
            /\ lastMut' = IF r.panic THEN lastMut
                          ELSE [lastMut EXCEPT ![k] = [kind |-> "removed"]]
            /\ ret' = [op |-> "remove_var", key |-> k, out |-> [panic |-> r.panic]]

\* A process starts with the environment it was given, before any call.
EnvInit ==
    /\ conv \in Conventions
    /\ client = Fresh
    /\ environ \in Environments
    /\ lastMut = NeverMutated(environ)
    /\ ret = NoCall
    /\ argv = NoArgs
    /\ iter = NoIter

EnvNext ==
    \/ Var /\ UNCHANGED <<conv, client, argv, iter>>
    \/ VarOs /\ UNCHANGED <<conv, client, argv, iter>>
    \/ SetVar /\ UNCHANGED <<conv, client, argv, iter>>
    \/ RemoveVar /\ UNCHANGED <<conv, client, argv, iter>>

EnvSpec == EnvInit /\ [][EnvNext]_vars

----------------------------------------------------------------------------
(* PlatformBackend: snapshots (STD::vars_os, STD::args_os) *)

Range(s) == {s[i] : i \in 1..Len(s)}

\* STD::vars_os: the (key, value) pairs of the environment captured at one
\* instant, every variable once, in an order the platform chooses.
STD_vars_os(env) ==
    LET present == {k \in DOMAIN env : env[k].some}
        n == Cardinality(present)
    IN  {[i \in 1..n |-> <<order[i], env[order[i]].val>>] :
            order \in {o \in [1..n -> present] : \A i, j \in 1..n : o[i] = o[j] => i = j}}

\* STD::args_os: the arguments of the process, captured in order.
STD_args_os(args) == args

\* The backend's snapshot iterator: owns its buffer; next takes the first
\* remaining element, next_back the last, len counts the remaining ones.
Snapshot_next(buf) ==
    IF buf = <<>> THEN [item |-> None, inner |-> buf]
    ELSE [item |-> Some(Head(buf)), inner |-> Tail(buf)]

Snapshot_next_back(buf) ==
    IF buf = <<>> THEN [item |-> None, inner |-> buf]
    ELSE [item |-> Some(buf[Len(buf)]), inner |-> SubSeq(buf, 1, Len(buf) - 1)]

Snapshot_len(buf) == Len(buf)

\* The units arguments are made of.
ArgUnits == {"v", BadUnit}

RECURSIVE ArgListsOfLen(_)
ArgListsOfLen(n) ==
    IF n = 0 THEN {<<>>}
    ELSE {Append(l, a) : l \in ArgListsOfLen(n - 1), a \in StringsUpTo(ArgUnits, MaxArgLen)}

\* The argument lists a process can be started with.
ArgLists == UNION {ArgListsOfLen(n) : n \in 0..MaxArgs}

----------------------------------------------------------------------------
(* env.rs: the snapshot iterators *)

\* What a call of next / next_back did: the item it returned (or the panic
\* it ended in) and the iterator it left behind.
Yield(item, inner) == [panic |-> FALSE, item |-> item, inner |-> inner]
Unwind(inner) == [panic |-> TRUE, item |-> None, inner |-> inner]

\* VarsOs::next that reads the value of the next key from the live
\* environment (a lazy iterator instead of a snapshot).
VarsOs_next_live(inner) ==
    LET n == Snapshot_next(inner)
    IN  IF n.item.some /\ environ[n.item.val[1]].some
        THEN Yield(Some(<<n.item.val[1], environ[n.item.val[1]].val>>), n.inner)
        ELSE Yield(n.item, n.inner)

\* VarsOs::next: self.inner.next()
VarsOs_next(inner) ==
    LET n == Snapshot_next(inner)
    IN  Yield(n.item, n.inner)

\* Vars::next with the pair decoded leniently (to_string_lossy): no panic.
Vars_next_lossy(inner) ==
    LET n == VarsOs_next(inner)
        lossy(s) == [i \in 1..Len(s) |-> IF s[i] = BadUnit THEN "uFFFD" ELSE s[i]]
    IN  IF ~n.item.some THEN n
        ELSE Yield(Some(<<lossy(n.item.val[1]), lossy(n.item.val[2])>>), n.inner)

\* Vars::next: self.inner.next().map(|(a, b)| (a.into_string().unwrap(),
\* b.into_string().unwrap())): the pair is taken from the snapshot first,
\* then decoded; a key or value that does not decode panics.
Vars_next(inner) ==
    LET n == VarsOs_next(inner)
    IN  IF ~n.item.some THEN n
        ELSE LET a == into_string(n.item.val[1])
                 b == into_string(n.item.val[2])
             IN  IF a.ok /\ b.ok THEN Yield(Some(<<a.val, b.val>>), n.inner)
                 ELSE Unwind(n.inner)

\* ArgsOs::next: self.inner.next()
ArgsOs_next(inner) ==
    LET n == Snapshot_next(inner)
    IN  Yield(n.item, n.inner)

\* ArgsOs::next_back that takes from the front (self.inner.next()).
ArgsOs_next_back_from_front(inner) ==
    LET n == Snapshot_next(inner)
    IN  Yield(n.item, n.inner)

\* ArgsOs::next_back: self.inner.next_back()
ArgsOs_next_back(inner) ==
    LET n == Snapshot_next_back(inner)
    IN  Yield(n.item, n.inner)

\* ArgsOs::len: self.inner.len()
ArgsOs_len(inner) == Snapshot_len(inner)

\* Args::next: self.inner.next().map(|s| s.into_string().unwrap())
Args_next(inner) ==
    LET n == ArgsOs_next(inner)
    IN  IF ~n.item.some THEN n
        ELSE LET s == into_string(n.item.val)
             IN  IF s.ok THEN Yield(Some(s.val), n.inner) ELSE Unwind(n.inner)

\* Args::next_back: self.inner.next_back().map(|s| s.into_string().unwrap())
Args_next_back(inner) ==
    LET n == ArgsOs_next_back(inner)
    IN  IF ~n.item.some THEN n
        ELSE LET s == into_string(n.item.val)
             IN  IF s.ok THEN Yield(Some(s.val), n.inner) ELSE Unwind(n.inner)

\* Args::len: self.inner.len()
Args_len(inner) == ArgsOs_len(inner)

----------------------------------------------------------------------------
(* The snapshot iterators as steps of the calling code *)

\* The iterator over the environment just created: `snapshot` and `envAt`
\* remember what was captured and the environment it was captured from,
\* `yielded` the items next has returned, `panicked` whether the last call
\* of next panicked, `stale` whether the environment had changed since the
\* capture when next was last called.
NewVars(kind, snapshot) ==
    [kind |-> kind, inner |-> snapshot, snapshot |-> snapshot, envAt |-> environ,
     yielded |-> <<>>, panicked |-> FALSE, stale |-> FALSE]

\* vars_os(): VarsOs { inner: STD::vars_os() }
VarsOsCall ==
    \E snapshot \in STD_vars_os(environ) : iter' = NewVars("vars_os", snapshot)

\* vars(): Vars { inner: vars_os() }
VarsCall ==
    \E snapshot \in STD_vars_os(environ) : iter' = NewVars("vars", snapshot)

AfterVarsNext(n) ==
    iter' = [iter EXCEPT
                !.inner = n.inner,
                !.yielded = IF n.item.some THEN Append(@, n.item.val) ELSE @,
                !.panicked = n.panic,
                !.stale = (environ # iter.envAt)]

\* VarsOs::next on the iterator held.
VarsOsNext ==
    /\ iter.kind = "vars_os"
    /\ AfterVarsNext(VarsOs_next(iter.inner))

\* Vars::next on the iterator held. The iterator has no state but `inner`,
\* which is past the pair a panicking call took: a call made after a panic
\* that was caught goes on with the pair after it.
VarsNext ==
    /\ iter.kind = "vars"
    /\ AfterVarsNext(Vars_next(iter.inner))

\* set_var(k, v) while an iterator is held, by code that does not look at
\* how the call ended (`ret` keeps the last call that was looked at).
SetVarUnobserved ==
    \E k \in Keys, v \in Values :
        LET r == set_var(environ, k, v)
        IN  /\ environ' = r.env
            /\ lastMut' = IF r.panic THEN lastMut
                          ELSE [lastMut EXCEPT ![k] = [kind |-> "set", val |-> v]]

\* remove_var(k) while an iterator is held, its outcome not looked at.
RemoveVarUnobserved ==
    \E k \in Keys :
        LET r == remove_var(environ, k)
        IN  /\ environ' = r.env
            /\ lastMut' = IF r.panic THEN lastMut
                          ELSE [lastMut EXCEPT ![k] = [kind |-> "removed"]]

\* The iterator over the arguments just created: `front` and `back` are the
\* items next and next_back have returned, `panicked` whether the last of
\* these calls panicked, `last` the end it took from, `reported` what len()
\* said since.
NewArgs(kind, snapshot) ==
    [kind |-> kind, inner |-> snapshot, front |-> <<>>, back |-> <<>>,
     panicked |-> FALSE, last |-> "none", reported |-> None]

\* args_os(): ArgsOs { inner: STD::args_os() }
ArgsOsCall == iter' = NewArgs("args_os", STD_args_os(argv))

\* args(): Args { inner: args_os() }
ArgsCall == iter' = NewArgs("args", STD_args_os(argv))

AfterArgsNext(n) ==
    iter' = [iter EXCEPT
                !.inner = n.inner,
                !.front = IF n.item.some THEN Append(@, n.item.val) ELSE @,
                !.panicked = n.panic,
                !.last = "next",
                !.reported = None]

AfterArgsNextBack(n) ==
    iter' = [iter EXCEPT
                !.inner = n.inner,
                !.back = IF n.item.some THEN Append(@, n.item.val) ELSE @,
                !.panicked = n.panic,
                !.last = "next_back",
                !.reported = None]

ArgsOsNext ==
    /\ iter.kind = "args_os"
    /\ AfterArgsNext(ArgsOs_next(iter.inner))

ArgsOsNextBack ==
    /\ iter.kind = "args_os"
    /\ AfterArgsNextBack(ArgsOs_next_back(iter.inner))

ArgsNext ==
    /\ iter.kind = "args"
    /\ AfterArgsNext(Args_next(iter.inner))

ArgsNextBack ==
    /\ iter.kind = "args"
    /\ AfterArgsNextBack(Args_next_back(iter.inner))

\* len() on the iterator held.
ArgsLen ==
    /\ iter.kind \in {"args", "args_os"}
    /\ iter' = [iter EXCEPT
                    !.reported = Some(IF iter.kind = "args" THEN Args_len(iter.inner)
                                      ELSE ArgsOs_len(iter.inner))]

\* Iteration over the environment while the environment is mutated, in a
\* process started with an empty environment that fills it itself.
SnapInit ==
    /\ conv \in Conventions
    /\ client = Fresh
    /\ environ = [k \in ValidKeys |-> None]
    /\ lastMut = NeverMutated(environ)
    /\ ret = NoCall
    /\ argv = NoArgs
    /\ iter = NoIter

SnapNext ==
    \/ VarsOsCall /\ UNCHANGED <<conv, client, environ, lastMut, ret, argv>>
    \/ VarsCall /\ UNCHANGED <<conv, client, environ, lastMut, ret, argv>>
    \/ VarsOsNext /\ UNCHANGED <<conv, client, environ, lastMut, ret, argv>>
    \/ VarsNext /\ UNCHANGED <<conv, client, environ, lastMut, ret, argv>>
    \/ SetVarUnobserved /\ UNCHANGED <<conv, client, ret, argv, iter>>
    \/ RemoveVarUnobserved /\ UNCHANGED <<conv, client, ret, argv, iter>>

SnapSpec == SnapInit /\ [][SnapNext]_vars

\* Iteration over the environment and over the arguments of a process that
\* was started with an environment or with arguments.
IterInit ==
    /\ conv \in Conventions
    /\ client = Fresh
    /\ \/ environ \in Environments /\ argv = NoArgs
       \/ environ = [k \in ValidKeys |-> None] /\ argv \in ArgLists
    /\ lastMut = NeverMutated(environ)
    /\ ret = NoCall
    /\ iter = NoIter

IterNext ==
    \/ VarsOsCall /\ UNCHANGED <<conv, client, environ, lastMut, ret, argv>>
    \/ VarsCall /\ UNCHANGED <<conv, client, environ, lastMut, ret, argv>>
    \/ VarsOsNext /\ UNCHANGED <<conv, client, environ, lastMut, ret, argv>>
    \/ VarsNext /\ UNCHANGED <<conv, client, environ, lastMut, ret, argv>>
    \/ ArgsOsCall /\ UNCHANGED <<conv, client, environ, lastMut, ret, argv>>
    \/ ArgsCall /\ UNCHANGED <<conv, client, environ, lastMut, ret, argv>>
    \/ ArgsOsNext /\ UNCHANGED <<conv, client, environ, lastMut, ret, argv>>
    \/ ArgsOsNextBack /\ UNCHANGED <<conv, client, environ, lastMut, ret, argv>>
    \/ ArgsNext /\ UNCHANGED <<conv, client, environ, lastMut, ret, argv>>
    \/ ArgsNextBack /\ UNCHANGED <<conv, client, environ, lastMut, ret, argv>>
    \/ ArgsLen /\ UNCHANGED <<conv, client, environ, lastMut, ret, argv>>

IterSpec == IterInit /\ [][IterNext]_vars

----------------------------------------------------------------------------
(* Reference descriptions the properties are stated with *)

Count(s, u) == Cardinality({i \in 1..Len(s) : s[i] = u})

\* The entries written one after the other with one `sep` between
\* neighbours.
RECURSIVE Flatten(_, _)
Flatten(v, sep) ==
    IF v = <<>> THEN <<>>
    ELSE IF Len(v) = 1 THEN v[1]
    ELSE v[1] \o <<sep>> \o Flatten(Tail(v), sep)

\* Position i of s lies outside quotes when an even number of quote
\* characters precede it.
OutsideQuotes(s, i) == Cardinality({j \in 1..(i - 1) : s[j] = Quote}) % 2 = 0

\* The positions of the separators of s that lie outside quotes.
OutsideSeps(s) == {i \in 1..Len(s) : s[i] = ";" /\ OutsideQuotes(s, i)}

\* The position of the n-th separator outside quotes.
NthSep(s, n) ==
    CHOOSE i \in OutsideSeps(s) : Cardinality({j \in OutsideSeps(s) : j <= i}) = n

\* The n-th path of s under the Windows convention: the text between the
\* (n-1)-th and the n-th separator outside quotes, its quote characters
\* left out.
WindowsSegment(s, n) ==
    LET lo == IF n = 1 THEN 0 ELSE NthSep(s, n - 1)
        hi == IF n = Cardinality(OutsideSeps(s)) + 1 THEN Len(s) + 1 ELSE NthSep(s, n)
    IN  SelectSeq(SubSeq(s, lo + 1, hi - 1), LAMBDA u : u # Quote)

\* v is the Windows reading of s.
IsWindowsSplit(s, v) ==
    /\ Len(v) = Cardinality(OutsideSeps(s)) + 1
    /\ \A n \in 1..Len(v) : v[n] = WindowsSegment(s, n)

\* A path as the Windows join writes it.
WindowsQuoted(p) == IF Contains(p, ";") THEN <<Quote>> \o p \o <<Quote>> ELSE p

\* What var(K) is to return for a key with history m.
Decoded(value) ==
    IF Contains(value, BadUnit) THEN Err(NotUnicode(value)) ELSE Ok(value)

ExpectedVar(m) ==
    IF m.kind = "set" THEN Decoded(m.val)
    ELSE IF m.kind = "removed" THEN Err(NotPresent)
    ELSE IF m.initial.some THEN Decoded(m.initial.val)
    ELSE Err(NotPresent)

----------------------------------------------------------------------------
(* Properties *)

\* C1 as stated: whenever join_paths accepted a sequence v and its result
\* was split again, the paths obtained are exactly v, the empty sequence
\* included.
C1_RoundTripAnySequence ==
    client.chain = "split_of_join" => client.parsed.val = client.paths.val

\* C1 as amended: for every non-empty sequence v that join_paths accepts,
\* split_paths(join_paths(v)) is exactly v; for the empty sequence it is
\* one empty path.
C1_RoundTrip ==
    client.chain = "split_of_join" =>
        IF client.paths.val = <<>>
        THEN client.parsed.val = << <<>> >>
        ELSE client.parsed.val = client.paths.val

C1_Witness ==
    /\ client.chain = "split_of_join"
    /\ conv = "windows"
    /\ client.paths.val = << <<";">>, <<>> >>
    /\ client.joined.val = Ok(<<Quote, ";", Quote, ";">>)
    /\ client.parsed.val = << <<";">>, <<>> >>

\* C2: under either convention split_paths of the empty string yields
\* exactly one path, the empty path.
C2_EmptyStringOneEmptyPath ==
    (client.parsed.some /\ client.unparsed.val = <<>>) =>
        client.parsed.val = << <<>> >>

C2_Witness ==
    /\ client.chain = "split"
    /\ client.unparsed = Some(<<>>)
    /\ client.parsed = Some(<< <<>> >>)

\* C3: the POSIX split is the direct split on ':': one path more than there
\* are ':' in the input, no path holds ':', and the paths written in order
\* with ':' between them are the input again.
C3_PosixDirectSplit ==
    (conv = "posix" /\ client.parsed.some) =>
        LET s == client.unparsed.val
            v == client.parsed.val
        IN  /\ Len(v) = Count(s, ":") + 1
            /\ \A i \in 1..Len(v) : ~Contains(v[i], ":")
            /\ Flatten(v, ":") = s

C3_Witness ==
    /\ conv = "posix"
    /\ client.chain = "split"
    /\ client.unparsed.val = <<":", ":">>
    /\ client.parsed.val = << <<>>, <<>>, <<>> >>

\* C4: the Windows split is the quote-aware reading: one path more than
\* there are ';' outside quotes, each path the text between neighbouring
\* outside separators with the quote characters left out (so ';' inside
\* quotes is kept and no path holds a quote).
C4_WindowsQuoteAwareSplit ==
    (conv = "windows" /\ client.parsed.some) =>
        LET s == client.unparsed.val
            v == client.parsed.val
        IN  /\ IsWindowsSplit(s, v)
            /\ \A i \in 1..Len(v) : ~Contains(v[i], Quote)
            /\ (s = <<Quote, Quote>> => v = << <<>> >>)

C4_Witness ==
    /\ conv = "windows"
    /\ client.chain = "split"
    /\ client.unparsed.val = <<Quote, ";", Quote>>
    /\ client.parsed.val = << <<";">> >>

\* C5: when the Windows input ends inside a quoted region, the text after
\* the opening quote, its ';' included, ends the final path, and the paths
\* are those of the input with a closing quote appended.
C5_UnmatchedQuoteImplicitClose ==
    (conv = "windows" /\ client.parsed.some
        /\ Count(client.unparsed.val, Quote) % 2 = 1) =>
        LET s == client.unparsed.val
            v == client.parsed.val
            open == CHOOSE i \in 1..Len(s) :
                        s[i] = Quote /\ \A j \in (i + 1)..Len(s) : s[j] # Quote
            rest == SubSeq(s, open + 1, Len(s))
        IN  /\ Len(v) >= 1
            /\ Len(v[Len(v)]) >= Len(rest)
            /\ SubSeq(v[Len(v)], Len(v[Len(v)]) - Len(rest) + 1, Len(v[Len(v)])) = rest
            /\ IsWindowsSplit(Append(s, Quote), v)

C5_Witness ==
    /\ conv = "windows"
    /\ client.chain = "split"
    /\ client.unparsed.val = <<Quote, "a", ";">>
    /\ client.parsed.val = << <<"a", ";">> >>

\* C6: the POSIX join fails exactly when some path holds ':'; otherwise it
\* is the paths in order with one ':' between neighbours, empty paths kept.
C6_PosixJoin ==
    (conv = "posix" /\ client.joined.some) =>
        LET v == client.paths.val
            r == client.joined.val
        IN  /\ ~r.ok <=> \E i \in 1..Len(v) : Contains(v[i], ":")
            /\ r.ok => r.val = Flatten(v, ":")

C6_Witness ==
    /\ conv = "posix"
    /\ client.chain = "join"
    /\ client.paths.val = << <<>>, <<"a">>, <<>> >>
    /\ client.joined.val = Ok(<<":", "a", ":">>)

\* C7: the Windows join fails exactly when some path holds '"'; otherwise
\* it is the paths in order with one ';' between neighbours, a path holding
\* ';' wrapped in one pair of quotes and every other path as it is.
C7_WindowsJoin ==
    (conv = "windows" /\ client.joined.some) =>
        LET v == client.paths.val
            r == client.joined.val
        IN  /\ ~r.ok <=> \E i \in 1..Len(v) : Contains(v[i], Quote)
            /\ r.ok => r.val = Flatten([i \in 1..Len(v) |-> WindowsQuoted(v[i])], ";")

C7_Witness ==
    /\ conv = "windows"
    /\ client.chain = "join"
    /\ client.paths.val = << <<"a", ";">>, <<>> >>
    /\ client.joined.val = Ok(<<Quote, "a", ";", Quote, ";">>)

\* C8: under either convention join_paths of the empty sequence succeeds
\* with the empty string.
C8_JoinEmptySequence ==
    (client.joined.some /\ client.paths.val = <<>>) => client.joined.val = Ok(<<>>)

C8_Witness ==
    /\ client.chain = "join"
    /\ client.paths = Some(<<>>)
    /\ client.joined = Some(Ok(<<>>))

\* C9: a var(key) that returned classifies the backend's answer: absent is
\* NotPresent, a Unicode value is that string, a value that is not Unicode
\* is NotUnicode carrying the raw value var_os(key) returns.
C9_VarClassifiesLookup ==
    (ret.op = "var" /\ ~ret.out.panic) =>
        LET found == STD_getenv(environ, ret.key, FALSE).val
        IN  /\ ~found.some => ret.out.val = Err(NotPresent)
            /\ (found.some /\ ~Contains(found.val, BadUnit)) =>
                    ret.out.val = Ok(found.val)
            /\ (found.some /\ Contains(found.val, BadUnit)) =>
                    /\ ret.out.val = Err(NotUnicode(found.val))
                    /\ var_os(environ, ret.key, FALSE) = Returned(Some(ret.out.val.err.raw))

C9_Witness ==
    /\ ret.op = "var"
    /\ ret.key = <<"k">>
    /\ environ[<<"k">>] = Some(<<BadUnit>>)
    /\ ret.out = Returned(Err(NotUnicode(<<BadUnit>>)))

\* C10 as stated: a var(K) that returned gives the value of the most recent
\* set_var(K, V) when no remove_var(K) came after it, and NotPresent when K
\* was last removed or was never set.
C10_VarFollowsLastMutationAsStated ==
    (ret.op = "var" /\ ~ret.out.panic /\ ret.key \in ValidKeys) =>
        LET m == lastMut[ret.key]
        IN  IF m.kind = "set" THEN ret.out.val = Ok(m.val)
            ELSE ret.out.val = Err(NotPresent)

\* C10 as amended: for every well-formed key K, var(K) answers from the
\* most recent completed mutation of K alone: after set_var(K, V) it is V
\* when V is Unicode and NotUnicode(V) otherwise, after remove_var(K) it is
\* NotPresent, and for a key no call has mutated it is what the process was
\* started with; a var(K) that returned gave exactly that answer.
C10_VarFollowsLastMutation ==
    /\ \A K \in ValidKeys :
            var(environ, K, FALSE) = Returned(ExpectedVar(lastMut[K]))
    /\ (ret.op = "var" /\ ~ret.out.panic /\ ret.key \in ValidKeys) =>
            ret.out.val = ExpectedVar(lastMut[ret.key])

C10_Witness ==
    /\ lastMut[<<"k">>].kind = "removed"
    /\ lastMut[<<BadUnit>>] = [kind |-> "set", val |-> <<"v">>]
    /\ ret.op = "var"
    /\ ret.key = <<BadUnit>>
    /\ ret.out = Returned(Ok(<<"v">>))

\* C11: set_var panics whenever the key is empty, holds '=' or holds NUL,
\* or the value holds NUL; remove_var panics whenever the key is empty,
\* holds '=' or holds NUL.
C11_MalformedInputPanics ==
    /\ (ret.op = "set_var" /\ (\/ ret.key = <<>>
                               \/ Contains(ret.key, "=")
                               \/ Contains(ret.key, Nul)
                               \/ Contains(ret.value, Nul))) => ret.out.panic
    /\ (ret.op = "remove_var" /\ (\/ ret.key = <<>>
                                  \/ Contains(ret.key, "=")
                                  \/ Contains(ret.key, Nul))) => ret.out.panic

C11_Witness ==
    /\ ret.op = "set_var"
    /\ ret.key = <<"k">>
    /\ ret.value = <<Nul>>
    /\ ret.out.panic

\* C15: a join_paths that fails has taken the paths from its iterator in
\* order up to the earliest offending path and no further (the paths after
\* it are still in the iterator); it returns the error raised for that path
\* alone, no joined string beside it; and the paths after it have no part
\* in the result: every sequence that agrees with this one up to that path
\* fails with the same error.
C15_JoinFailsAtEarliestOffender ==
    (client.joined.some /\ ~client.joined.val.ok) =>
        LET v == client.paths.val
            r == client.joined.val
            bad == IF conv = "windows" THEN Quote ELSE ":"
            offenders == {i \in 1..Len(v) : Contains(v[i], bad)}
            first == CHOOSE i \in offenders : \A j \in offenders : i <= j
        IN  /\ offenders # {}
            /\ client.rest = Some(SubSeq(v, first + 1, Len(v)))
            /\ DOMAIN r = {"ok", "err"}
            /\ DOMAIN r.err = {"inner"}
            /\ r = join_paths(conv, SubSeq(v, 1, first))
            /\ join_paths(conv, SubSeq(v, 1, first - 1)).ok
            /\ \A w \in PathSeqInputs[conv] :
                    (Len(w) >= first /\ SubSeq(w, 1, first) = SubSeq(v, 1, first)) =>
                        /\ join_paths(conv, w) = r
                        /\ join_paths_from(conv, w).rest = SubSeq(w, first + 1, Len(w))

C15_Witness ==
    /\ conv = "posix"
    /\ client.chain = "join"
    /\ client.paths.val = << <<":">>, <<":">> >>
    /\ client.joined.val = Err([inner |-> "path segment contains separator"])
    /\ client.rest = Some(<< <<":">> >>)

\* C16: a set_var or remove_var that panicked left the environment as it
\* was: var_os gives for every key what it gave before the call.
C16_FailedMutationChangesNothing ==
    [][(ret'.op \in {"set_var", "remove_var"} /\ ret'.out.panic) =>
            /\ environ' = environ
            /\ \A key \in Keys :
                    var_os(environ', key, FALSE) = var_os(environ, key, FALSE)]_vars

C16_Witness ==
    /\ ret.op = "set_var"
    /\ ret.key = <<"k">>
    /\ ret.value = <<Nul>>
    /\ ret.out.panic
    /\ environ[<<"k">>] = Some(<<"v">>)
    /\ lastMut[<<"k">>].kind = "set"

\* C17 as stated: var and var_os complete by returning a result whatever
\* the backend lookup did, its failure included.
C17_LookupAlwaysReturns ==
    ret.op \in {"var", "var_os"} => ~ret.out.panic

\* C17 as amended: var and var_os return a result exactly when the backend
\* lookup succeeded (var: a Unicode string, NotPresent or NotUnicode;
\* var_os: the value or none); when the backend lookup fails the call
\* panics, the failure is neither returned nor swallowed.
C17_LookupReturnsUnlessBackendFails ==
    ret.op \in {"var", "var_os"} =>
        /\ ret.out.panic <=> ret.os_failure
        /\ (ret.op = "var" /\ ~ret.os_failure) =>
                \/ ret.out.val = Err(NotPresent)
                \/ /\ ret.out.val.ok
                   /\ ~Contains(ret.out.val.val, BadUnit)
                \/ /\ ~ret.out.val.ok
                   /\ ret.out.val.err.variant = "NotUnicode"
        /\ (ret.op = "var_os" /\ ~ret.os_failure) =>
                ret.out.val = IF ret.key \in ValidKeys THEN environ[ret.key] ELSE None

C17_Witness ==
    /\ ret.op = "var"
    /\ ret.key = <<"k">>
    /\ ret.os_failure
    /\ ret.out.panic
    /\ environ[<<"k">>] = Some(<<"v">>)

\* C18: the paths split_paths produced never hold the character join_paths
\* rejects, joining them succeeds, and splitting the joined string gives the
\* same paths again, also when the joined string differs from the input.
C18_SplitOutputJoinsAndResplits ==
    /\ client.parsed.some =>
            \A i \in 1..Len(client.parsed.val) :
                ~Contains(client.parsed.val[i], IF conv = "windows" THEN Quote ELSE ":")
    /\ client.chain = "join_of_split" =>
            /\ client.paths = client.parsed
            /\ client.joined.val.ok
            /\ split_paths(conv, client.joined.val.val) = client.parsed.val

C18_Witness ==
    /\ conv = "windows"
    /\ client.chain = "join_of_split"
    /\ client.unparsed.val = <<Quote, "a", Quote>>
    /\ client.parsed.val = << <<"a">> >>
    /\ client.joined.val = Ok(<<"a">>)

\* The pairs an environment holds.
PairsOf(env) == {<<k, env[k].val>> : k \in {x \in DOMAIN env : env[x].some}}

IsUnicode(s) == ~Contains(s, BadUnit)

UnicodePair(p) == IsUnicode(p[1]) /\ IsUnicode(p[2])

\* C12: the pairs an iterator made by vars() or vars_os() holds are, each
\* once, the pairs the environment held when the iterator was made, whatever
\* set_var and remove_var did since: vars_os() has yielded the pairs taken
\* so far as captured, vars() those of them that decode (a call that takes
\* a pair that does not decode panics), and the pairs left are the rest of
\* the capture.
C12_SnapshotFixedAtCreation ==
    iter.kind \in {"vars", "vars_os"} =>
        LET taken == Len(iter.snapshot) - Len(iter.inner)
            prefix == SubSeq(iter.snapshot, 1, taken)
        IN  /\ Range(iter.snapshot) = PairsOf(iter.envAt)
            /\ Len(iter.snapshot) = Cardinality(PairsOf(iter.envAt))
            /\ iter.inner = SubSeq(iter.snapshot, taken + 1, Len(iter.snapshot))
            /\ iter.yielded = IF iter.kind = "vars_os" THEN prefix
                               ELSE SelectSeq(prefix, UnicodePair)

C12_Witness ==
    /\ iter.kind = "vars_os"
    /\ iter.stale
    /\ iter.envAt[<<"k">>] = Some(<<"v">>)
    /\ environ[<<"k">>] = Some(<<>>)
    /\ environ[<<BadUnit>>] = None
    /\ iter.yielded = << <<<<BadUnit>>, <<"v">>>>, <<<<"k">>, <<"v">>>> >>

\* What the iterators hold after any calls: the raw ones have yielded every
\* element taken, unchanged, and their last call did not panic; the decoding
\* ones have yielded, in order, the elements taken that are valid Unicode,
\* and their last call panicked only if the element it took is not.
C13_Yielded ==
    /\ iter.kind = "vars_os" =>
            /\ ~iter.panicked
            /\ iter.yielded \o iter.inner = iter.snapshot
    /\ iter.kind = "args_os" =>
            /\ ~iter.panicked
            /\ iter.front \o iter.inner \o Reverse(iter.back) = argv
    /\ iter.kind = "vars" =>
            LET taken == Len(iter.snapshot) - Len(iter.inner)
            IN  /\ iter.inner = SubSeq(iter.snapshot, taken + 1, Len(iter.snapshot))
                /\ iter.yielded = SelectSeq(SubSeq(iter.snapshot, 1, taken), UnicodePair)
                /\ iter.panicked =>
                        taken >= 1 /\ ~UnicodePair(iter.snapshot[taken])
    /\ iter.kind = "args" =>
            \E f \in 0..Len(argv) : \E b \in 0..(Len(argv) - f) :
                /\ iter.inner = SubSeq(argv, f + 1, Len(argv) - b)
                /\ iter.front = SelectSeq(SubSeq(argv, 1, f), IsUnicode)
                /\ Reverse(iter.back)
                        = SelectSeq(SubSeq(argv, Len(argv) - b + 1, Len(argv)), IsUnicode)
                /\ iter.panicked =>
                        \/ iter.last = "next" /\ f >= 1 /\ ~IsUnicode(argv[f])
                        \/ /\ iter.last = "next_back"
                           /\ b >= 1
                           /\ ~IsUnicode(argv[Len(argv) - b + 1])

\* A call of next or next_back on a decoding iterator that takes an element
\* panics exactly if that element is not valid Unicode, and yields it
\* otherwise.
C13_Call ==
    (iter.kind \in {"vars", "args"} /\ iter'.kind = iter.kind
        /\ Len(iter'.inner) = Len(iter.inner) - 1) =>
        LET element == IF iter.kind = "vars" \/ iter'.last = "next"
                       THEN Head(iter.inner)
                       ELSE iter.inner[Len(iter.inner)]
            decodes == IF iter.kind = "vars" THEN UnicodePair(element)
                       ELSE IsUnicode(element)
            yielded(it) == IF it.kind = "vars" THEN Len(it.yielded)
                           ELSE Len(it.front) + Len(it.back)
        IN  /\ iter'.panicked <=> ~decodes
            /\ yielded(iter') = yielded(iter) + (IF decodes THEN 1 ELSE 0)

\* C13: vars() and args() panic at each element taken that is not valid
\* Unicode (a pair's key or its value; an argument), so first at the first
\* such element, every element taken before it having been yielded decoded;
\* vars_os() and args_os() never panic and yield every element of the
\* snapshot unchanged.
C13_DecodingFailsLoudlyRawNeverFails == []C13_Yielded /\ [][C13_Call]_vars

C13_Witness ==
    /\ iter.kind = "args"
    /\ argv = << <<"v">>, <<BadUnit>>, <<"v">> >>
    /\ iter.front = << <<"v">> >>
    /\ iter.back = <<>>
    /\ iter.panicked
    /\ iter.last = "next"

\* C14: for args_os(), and for args() on arguments that are all Unicode,
\* len() is the number of elements not yet yielded (all n of them before any
\* is taken); the elements taken by next, those left and those taken by
\* next_back reversed are the arguments in order, each once, so taking all
\* of them by next_back gives the reverse of taking them by next.
C14_ExactSizeAndDoubleEnded ==
    (iter.kind \in {"args", "args_os"}
        /\ (iter.kind = "args" => \A i \in 1..Len(argv) : IsUnicode(argv[i]))) =>
        LET yielded == Len(iter.front) + Len(iter.back)
            len == IF iter.kind = "args" THEN Args_len(iter.inner)
                   ELSE ArgsOs_len(iter.inner)
        IN  /\ ~iter.panicked
            /\ len = Len(argv) - yielded
            /\ iter.reported.some => iter.reported.val = Len(argv) - yielded
            /\ iter.front \o iter.inner \o Reverse(iter.back) = argv
            /\ (iter.inner = <<>> /\ iter.front = <<>>) => iter.back = Reverse(argv)
            /\ (iter.inner = <<>> /\ iter.back = <<>>) => iter.front = argv

C14_Witness ==
    /\ iter.kind = "args_os"
    /\ argv = << <<>>, <<"v">>, <<BadUnit>> >>
    /\ iter.front = << <<>> >>
    /\ iter.back = << <<BadUnit>>, <<"v">> >>
    /\ iter.inner = <<>>
    /\ iter.reported = Some(0)

====
